---- MODULE Spec2Model ----
(***************************************************************************)
(* Model of Common/GPU/Vulkan/VulkanFramebuffer.{h,cpp}: the render-target *)
(* image factory, the per-variant framebuffer-object cache of              *)
(* VKRFramebuffer, the per-variant pass cache of VKRRenderPass and the     *)
(* construction of pass objects (CreateRenderPass).                        *)
(*                                                                         *)
(* A native handle is opaque: only its equality with other handles is      *)
(* observable. Every native creation call returns a handle no earlier call *)
(* returned; the model names it <<kind, owner, slot, n>> after the kind of *)
(* object, the member that receives it and the number n of objects already *)
(* created for that member, plus one. objects[h] is the create-info the    *)
(* call that returned h was given. <<>> is VK_NULL_HANDLE.                 *)
(***************************************************************************)
EXTENDS Integers, Sequences, FiniteSets, Bags, TLC

VARIABLES
    vulkan,      \* the VulkanContext collaborator: device info and switches
    objects,     \* native objects created so far: handle -> create-info
    cmd,         \* barriers recorded into the caller's command buffer (initCmd)
    deleteQueue, \* vulkan->Delete(): bag of the entries enqueued for deferred deletion
    fbState,     \* "none" (not constructed), "alive", "destroyed"
    width, height, numLayers,
    color, depth,  \* the two VKRImage members of the VKRFramebuffer
    framebuf,    \* VKRFramebuffer::framebuf[TYPE_COUNT]
    tag_,        \* VKRFramebuffer::tag_
    pass,        \* pass[c] is VKRRenderPass::pass[TYPE_COUNT] of pass cache c
    key_,        \* key_[c] is VKRRenderPass::key_ of pass cache c
    ret          \* what the last call did and returned

vars == <<vulkan, objects, cmd, deleteQueue, fbState, width, height, numLayers,
          color, depth, framebuf, tag_, pass, key_, ret>>

-----------------------------------------------------------------------------
(* enum class RenderPassType *)

DEFAULT == 0
HAS_DEPTH == 1
COLOR_INPUT == 2
MULTIVIEW == 4
BACKBUFFER == 8
TYPE_COUNT == BACKBUFFER + 1

VK_NULL_HANDLE == <<>>

\* The values a cache slot index can take: framebuf[] and pass[] have
\* TYPE_COUNT entries.
Slots == 0 .. (TYPE_COUNT - 1)

\* Every value the four enumerators can be OR-ed into (ENUM_CLASS_BITOPS).
TypeValues == 0 .. (2 * BACKBUFFER - 1)

\* operator& of ENUM_CLASS_BITOPS(RenderPassType): bitwise and of the
\* underlying integers.
RECURSIVE BitAnd(_, _)
BitAnd(a, b) ==
    IF a = 0 \/ b = 0 THEN 0
    ELSE (IF a % 2 = 1 /\ b % 2 = 1 THEN 1 ELSE 0) + 2 * BitAnd(a \div 2, b \div 2)

RenderPassTypeHasDepth_NoBackbuffer(type) ==
    BitAnd(type, HAS_DEPTH) # 0

RenderPassTypeHasDepth(type) ==
    BitAnd(type, HAS_DEPTH) # 0 \/ type = BACKBUFFER

RenderPassTypeHasInput_WrongBit(type) ==
    BitAnd(type, MULTIVIEW) # 0

RenderPassTypeHasInput(type) ==
    BitAnd(type, COLOR_INPUT) # 0

RenderPassTypeHasMultiView_Never(type) ==
    FALSE

RenderPassTypeHasMultiView(type) ==
    BitAnd(type, MULTIVIEW) # 0

-----------------------------------------------------------------------------
(* Bounds of the model *)

\* Pass caches (VKRRenderPass instances) alive beside the framebuffer.
Caches == {1, 2}

\* Framebuffer objects created by VKRFramebuffer::Get.
MaxFramebufferObjects == 2

\* Pass objects created by the pass caches.
MaxPassObjects == 2

\* Pass handles in the deferred-deletion queue, counted with repetition.
MaxQueuedPasses == 2

\* The types requested over the life of a framebuffer: no facet, one facet
\* and the swapchain tag.
RequestTypes == {DEFAULT, COLOR_INPUT, BACKBUFFER}

Tags == {"a", "b"}

\* width x height pairs a framebuffer is constructed with.
Sizes == { <<1920, 1080>> }

LayerCounts == {1, 2}

\* struct RPKey: the keys the pass caches are constructed with.
Keys ==
    { [colorLoadAction |-> "KEEP", depthLoadAction |-> "KEEP", stencilLoadAction |-> "KEEP",
       colorStoreAction |-> "STORE", depthStoreAction |-> "STORE", stencilStoreAction |-> "STORE"],
      [colorLoadAction |-> "CLEAR", depthLoadAction |-> "DONT_CARE", stencilLoadAction |-> "CLEAR",
       colorStoreAction |-> "STORE", depthStoreAction |-> "DONT_CARE", stencilStoreAction |-> "DONT_CARE"] }

\* The VulkanContext states the model runs against.
Contexts ==
    { [preferredDepthStencilFormat |-> "VK_FORMAT_D24_UNORM_S8_UINT",
       swapchainFormat |-> "VK_FORMAT_B8G8R8A8_UNORM",
       EXT_debug_utils |-> TRUE, DebugLayerEnabled |-> TRUE],
      [preferredDepthStencilFormat |-> "VK_FORMAT_D32_SFLOAT_S8_UINT",
       swapchainFormat |-> "VK_FORMAT_R8G8B8A8_UNORM",
       EXT_debug_utils |-> FALSE, DebugLayerEnabled |-> FALSE] }

-----------------------------------------------------------------------------
(* Native objects *)

\* The handle a native creation call returns: one no earlier call returned.
NextHandle(objs, kind, owner, slot) ==
    <<kind, owner, slot,
      1 + Cardinality({g \in DOMAIN objs : g[1] = kind /\ g[2] = owner /\ g[3] = slot})>>

\* The object table after a creation call that returned h.
Created(objs, h, info) == objs @@ (h :> info)

\* Objects of one kind created so far.
CountKind(objs, kind) == Cardinality({g \in DOMAIN objs : g[1] = kind})

\* vulkan->SetDebugName(handle, type, name): labels a live handle.
SetDebugName(objs, h, name) ==
    IF h \notin DOMAIN objs THEN objs
    ELSE [objs EXCEPT ![h].name = name]

\* How the native calls of one operation turn out: the calls that fail, the
\* value a failed call leaves in its output handle, and whether the build
\* compiles debug assertions in.
NoFailure == [fails |-> {}, junk |-> VK_NULL_HANDLE, debugBuild |-> FALSE]

\* A handle value that names no object.
InvalidHandle == <<"invalid", 0, 0, 0>>

\* A native creation call: on success the object exists under the fresh
\* handle h; on failure nothing is created and the output holds junk.
NativeCreate(objs, h, info, call, nat) ==
    IF call \in nat.fails
    THEN [objs |-> objs, handle |-> nat.junk, ok |-> FALSE]
    ELSE [objs |-> Created(objs, h, info), handle |-> h, ok |-> TRUE]

\* _dbg_assert_(ok): ends the process in a build with debug assertions.
dbg_assert_aborts(ok, nat) == ~ok /\ nat.debugBuild

\* _assert_(ok): ends the process in every build.
assert_aborts(ok) == ~ok

\* struct VKRImage, value-initialised (color{}, depth{}).
NullImage ==
    [image |-> VK_NULL_HANDLE, rtView |-> VK_NULL_HANDLE,
     texAllLayersView |-> VK_NULL_HANDLE,
     texLayerViews |-> <<VK_NULL_HANDLE, VK_NULL_HANDLE>>,
     alloc |-> VK_NULL_HANDLE, format |-> "VK_FORMAT_UNDEFINED",
     layout |-> "VK_IMAGE_LAYOUT_UNDEFINED", numLayers |-> 0, tag |-> ""]

\* snprintf("%d", i) for the layer indices the code formats.
IntToString(i) ==
    CASE i = 0 -> "0"
      [] i = 1 -> "1"
      [] i = 2 -> "2"
      [] OTHER -> "?"

\* The switch on initialLayout in CreateImage: the destination access mask
\* and pipeline stages of the initial transition, or the default branch.
InitialTransition_ColorForAll(initialLayout) ==
    CASE initialLayout \in {"VK_IMAGE_LAYOUT_COLOR_ATTACHMENT_OPTIMAL",
                            "VK_IMAGE_LAYOUT_TRANSFER_DST_OPTIMAL",
                            "VK_IMAGE_LAYOUT_DEPTH_STENCIL_ATTACHMENT_OPTIMAL"} ->
            [known |-> TRUE,
             dstAccessMask |-> {"VK_ACCESS_COLOR_ATTACHMENT_WRITE_BIT"},
             dstStage |-> {"VK_PIPELINE_STAGE_COLOR_ATTACHMENT_OUTPUT_BIT"}]
      [] OTHER ->
            [known |-> FALSE, dstAccessMask |-> {}, dstStage |-> {}]

InitialTransition(initialLayout) ==
    CASE initialLayout = "VK_IMAGE_LAYOUT_COLOR_ATTACHMENT_OPTIMAL" ->
            [known |-> TRUE,
             dstAccessMask |-> {"VK_ACCESS_COLOR_ATTACHMENT_WRITE_BIT"},
             dstStage |-> {"VK_PIPELINE_STAGE_COLOR_ATTACHMENT_OUTPUT_BIT"}]
      [] initialLayout = "VK_IMAGE_LAYOUT_TRANSFER_DST_OPTIMAL" ->
            [known |-> TRUE,
             dstAccessMask |-> {"VK_ACCESS_TRANSFER_WRITE_BIT"},
             dstStage |-> {"VK_PIPELINE_STAGE_TRANSFER_BIT"}]
      [] initialLayout = "VK_IMAGE_LAYOUT_DEPTH_STENCIL_ATTACHMENT_OPTIMAL" ->
            [known |-> TRUE,
             dstAccessMask |-> {"VK_ACCESS_DEPTH_STENCIL_ATTACHMENT_WRITE_BIT"},
             dstStage |-> {"VK_PIPELINE_STAGE_EARLY_FRAGMENT_TESTS_BIT",
                           "VK_PIPELINE_STAGE_LATE_FRAGMENT_TESTS_BIT"}]
      [] OTHER ->
            [known |-> FALSE, dstAccessMask |-> {}, dstStage |-> {}]

\* VkImageCreateInfo ici of CreateImage, as handed to vmaCreateImage.
ImageCreateInfo(w, h, layers, format, isColor) ==
    [kind |-> "image", name |-> "",
     arrayLayers |-> layers, mipLevels |-> 1, extent |-> <<w, h, 1>>,
     initialLayout |-> "VK_IMAGE_LAYOUT_UNDEFINED",
     imageType |-> "VK_IMAGE_TYPE_2D", samples |-> 1,
     tiling |-> "VK_IMAGE_TILING_OPTIMAL", format |-> format,
     usage |-> {"SAMPLED", "TRANSFER_DST", "TRANSFER_SRC"}
               \cup (IF isColor THEN {"COLOR_ATTACHMENT", "INPUT_ATTACHMENT"}
                                ELSE {"DEPTH_STENCIL_ATTACHMENT"})]

\* VkImageViewCreateInfo ivci of CreateImage at one vkCreateImageView call.
ViewCreateInfo(image, format, viewType, aspects, layerCount, baseArrayLayer) ==
    [kind |-> "view", name |-> "", image |-> image, format |-> format,
     viewType |-> viewType, aspectMask |-> aspects,
     layerCount |-> layerCount, levelCount |-> 1,
     baseArrayLayer |-> baseArrayLayer]

\* The per-layer view loop of CreateImage: one 2D view per layer i, each on
\* its own array slice, labelled only when the debug layer is enabled, the
\* result of the call checked by a debug assertion after the labelling.
RECURSIVE CreateLayerViews(_, _, _, _, _, _, _, _, _, _)
CreateLayerViews(ctx, objs, views, image, owner, format, aspects, tag, todo, nat) ==
    IF todo = <<>> THEN [objs |-> objs, views |-> views, aborted |-> ""]
    ELSE LET i == Head(todo)
             call == "texLayerViews" \o IntToString(i)
         IN CHOOSE r \in
                {IF dbg_assert_aborts(made.ok, nat)
                 THEN [objs |-> IF ctx.DebugLayerEnabled
                                THEN SetDebugName(made.objs, made.handle,
                                                  tag \o "_layer" \o IntToString(i))
                                ELSE made.objs,
                       views |-> [views EXCEPT ![i + 1] = made.handle],
                       aborted |-> call]
                 ELSE CreateLayerViews(ctx,
                                       IF ctx.DebugLayerEnabled
                                       THEN SetDebugName(made.objs, made.handle,
                                                         tag \o "_layer" \o IntToString(i))
                                       ELSE made.objs,
                                       [views EXCEPT ![i + 1] = made.handle],
                                       image, owner, format, aspects, tag, Tail(todo), nat) :
                 made \in {NativeCreate(objs, NextHandle(objs, "view", owner, 2 + i),
                                        ViewCreateInfo(image, format, "VK_IMAGE_VIEW_TYPE_2D",
                                                       aspects, 1, i),
                                        call, nat)}} : TRUE

\* for (int i = 0; i < numLayers; i++)
LayerIndices_FirstOnly(layers) == <<0>>

LayerIndices(layers) == [k \in 1 .. layers |-> k - 1]

\* ivci.viewType of the primary (render-target) view.
PrimaryViewType_AlwaysArray(layers) == "VK_IMAGE_VIEW_TYPE_2D_ARRAY"

PrimaryViewType(layers) ==
    IF layers = 1 THEN "VK_IMAGE_VIEW_TYPE_2D" ELSE "VK_IMAGE_VIEW_TYPE_2D_ARRAY"

\* vmaCreateImage of CreateImage: the image and its allocation, given the
\* outcome mi of the call.
ImageAndAllocation(objs, owner, mi, nat) ==
    IF mi.ok
    THEN [objs |-> Created(mi.objs, NextHandle(objs, "allocation", owner, 0),
                           [kind |-> "allocation", name |-> "", image |-> mi.handle,
                            usage |-> "VMA_MEMORY_USAGE_GPU_ONLY"]),
          image |-> mi.handle, alloc |-> NextHandle(objs, "allocation", owner, 0),
          ok |-> TRUE]
    ELSE [objs |-> mi.objs, image |-> nat.junk, alloc |-> nat.junk, ok |-> FALSE]

\* (The outcome of each native call is bound as the one element of a set,
\* so that it is computed once however often the text after it reads it.)
CreateImageObject(objs, owner, w, h, layers, format, isColor, nat) ==
    CHOOSE r \in {ImageAndAllocation(o, owner, mi, nat) :
                     o \in {objs},
                     mi \in {NativeCreate(objs, NextHandle(objs, "image", owner, 0),
                                          ImageCreateInfo(w, h, layers, format, isColor),
                                          "vmaCreateImage", nat)}} : TRUE

\* vkCreateImageView of CreateImage for the primary view (slot 0) and the
\* all-layers view (slot 1), each followed by SetDebugName(view, tag).
CreateView(objs, owner, slot, info, tag, call, nat) ==
    CHOOSE r \in {[objs |-> SetDebugName(m.objs, m.handle, tag), view |-> m.handle, ok |-> m.ok] :
                     m \in {NativeCreate(objs, NextHandle(objs, "view", owner, slot),
                                         info, call, nat)}} : TRUE

\* The end of CreateImage: the switch on initialLayout, the transition and
\* the assignments to img, given what the creation calls produced.
FinishCreateImage(cb, img, im, rt, lv, layers, format, initialLayout, aspects, tag, nat) ==
    LET tr == InitialTransition(initialLayout)
        aborted == IF dbg_assert_aborts(im.ok, nat) THEN "vmaCreateImage"
                   ELSE IF dbg_assert_aborts(rt.ok, nat) THEN "rtView"
                   ELSE lv.aborted
    IN IF aborted # ""
       THEN [img |-> img, objs |-> lv.objs, cmd |-> cb, aborted |-> aborted, crashed |-> FALSE]
       ELSE IF ~tr.known
       THEN [img |-> img, objs |-> lv.objs, cmd |-> cb, aborted |-> "", crashed |-> TRUE]
       ELSE [img |-> [img EXCEPT !.layout = initialLayout, !.format = format,
                                 !.tag = tag, !.numLayers = layers],
             objs |-> lv.objs,
             cmd |-> Append(cb, [image |-> im.image, baseMip |-> 0, numMipLevels |-> 1,
                                 numLayers |-> layers, aspects |-> aspects,
                                 oldLayout |-> "VK_IMAGE_LAYOUT_UNDEFINED",
                                 newLayout |-> initialLayout,
                                 srcStage |-> {"VK_PIPELINE_STAGE_TOP_OF_PIPE_BIT"},
                                 dstStage |-> tr.dstStage,
                                 srcAccessMask |-> {}, dstAccessMask |-> tr.dstAccessMask]),
             aborted |-> "", crashed |-> FALSE]

\* VKRFramebuffer::CreateImage on a value-initialised img: the image and its
\* allocation, the primary view, the all-layers view, the per-layer views,
\* then the initial layout transition recorded into the command buffer.
\* The results of vmaCreateImage, of the primary view and of each per-layer
\* view are checked by debug assertions; the result of the all-layers view
\* is overwritten unchecked. The outcome holds the new img, object table
\* and command buffer, the call whose assertion ended the process (or ""),
\* and whether the call ended in Crash().
CreateImageNative(ctx, objs, cb, img, w, h, layers, format, initialLayout, isColor, tag, nat) ==
    LET owner == IF isColor THEN 0 ELSE 1
        aspects == IF isColor THEN {"COLOR"} ELSE {"DEPTH", "STENCIL"}
        texAspects == IF isColor THEN {"COLOR"} ELSE {"DEPTH"}
        im == CreateImageObject(objs, owner, w, h, layers, format, isColor, nat)
        rt == CreateView(im.objs, owner, 0,
                         ViewCreateInfo(im.image, format, PrimaryViewType(layers), aspects, layers, 0),
                         tag, "rtView", nat)
        all == CreateView(rt.objs, owner, 1,
                          ViewCreateInfo(im.image, format, "VK_IMAGE_VIEW_TYPE_2D_ARRAY",
                                         texAspects, layers, 0),
                          tag, "texAllLayersView", nat)
        lv == CreateLayerViews(ctx, all.objs, img.texLayerViews, im.image, owner,
                               format, texAspects, tag, LayerIndices(layers), nat)
    IN FinishCreateImage(cb,
                         [img EXCEPT !.image = im.image, !.alloc = im.alloc, !.rtView = rt.view,
                                     !.texAllLayersView = all.view, !.texLayerViews = lv.views],
                         im, rt, lv, layers, format, initialLayout, aspects, tag, nat)

\* CreateImage when every native call succeeds.
CreateImage(ctx, objs, cb, img, w, h, layers, format, initialLayout, isColor, tag) ==
    CreateImageNative(ctx, objs, cb, img, w, h, layers, format, initialLayout, isColor, tag,
                      NoFailure)

-----------------------------------------------------------------------------
(* Pass construction *)

ConvertLoadAction(action) ==
    CASE action = "CLEAR" -> "VK_ATTACHMENT_LOAD_OP_CLEAR"
      [] action = "KEEP" -> "VK_ATTACHMENT_LOAD_OP_LOAD"
      [] action = "DONT_CARE" -> "VK_ATTACHMENT_LOAD_OP_DONT_CARE"
      [] OTHER -> "VK_ATTACHMENT_LOAD_OP_DONT_CARE"

ConvertStoreAction(action) ==
    CASE action = "STORE" -> "VK_ATTACHMENT_STORE_OP_STORE"
      [] action = "DONT_CARE" -> "VK_ATTACHMENT_STORE_OP_DONT_CARE"
      [] OTHER -> "VK_ATTACHMENT_STORE_OP_DONT_CARE"

\* attachments[0] of CreateRenderPass.
ColorAttachment(ctx, key, isBackbuffer) ==
    [format |-> IF isBackbuffer THEN ctx.swapchainFormat ELSE "VK_FORMAT_R8G8B8A8_UNORM",
     samples |-> 1,
     loadOp |-> ConvertLoadAction(key.colorLoadAction),
     storeOp |-> ConvertStoreAction(key.colorStoreAction),
     stencilLoadOp |-> "VK_ATTACHMENT_LOAD_OP_DONT_CARE",
     stencilStoreOp |-> "VK_ATTACHMENT_STORE_OP_DONT_CARE",
     initialLayout |-> IF isBackbuffer THEN "VK_IMAGE_LAYOUT_UNDEFINED"
                       ELSE "VK_IMAGE_LAYOUT_COLOR_ATTACHMENT_OPTIMAL",
     finalLayout |-> IF isBackbuffer THEN "VK_IMAGE_LAYOUT_PRESENT_SRC_KHR"
                     ELSE "VK_IMAGE_LAYOUT_COLOR_ATTACHMENT_OPTIMAL",
     flags |-> 0]

\* attachments[1] of CreateRenderPass, filled in when hasDepth.
DepthAttachment(ctx, key) ==
    [format |-> ctx.preferredDepthStencilFormat,
     samples |-> 1,
     loadOp |-> ConvertLoadAction(key.depthLoadAction),
     storeOp |-> ConvertStoreAction(key.depthStoreAction),
     stencilLoadOp |-> ConvertLoadAction(key.stencilLoadAction),
     stencilStoreOp |-> ConvertStoreAction(key.stencilStoreAction),
     initialLayout |-> "VK_IMAGE_LAYOUT_DEPTH_STENCIL_ATTACHMENT_OPTIMAL",
     finalLayout |-> "VK_IMAGE_LAYOUT_DEPTH_STENCIL_ATTACHMENT_OPTIMAL",
     flags |-> 0]

\* color_reference of CreateRenderPass.
ColorReference_AlwaysOptimal(selfDependency) ==
    [attachment |-> 0, layout |-> "VK_IMAGE_LAYOUT_COLOR_ATTACHMENT_OPTIMAL"]

ColorReference(selfDependency) ==
    [attachment |-> 0,
     layout |-> IF selfDependency THEN "VK_IMAGE_LAYOUT_GENERAL"
                ELSE "VK_IMAGE_LAYOUT_COLOR_ATTACHMENT_OPTIMAL"]

\* depth_reference of CreateRenderPass.
DepthReference ==
    [attachment |-> 1, layout |-> "VK_IMAGE_LAYOUT_DEPTH_STENCIL_ATTACHMENT_OPTIMAL"]

\* VkSubpassDescription subpass of CreateRenderPass. A pointer member is a
\* sequence: empty for nullptr, else the elements it points to.
Subpass(selfDependency, hasDepth) ==
    [pipelineBindPoint |-> "VK_PIPELINE_BIND_POINT_GRAPHICS", flags |-> 0,
     inputAttachmentCount |-> IF selfDependency THEN 1 ELSE 0,
     pInputAttachments |-> IF selfDependency THEN <<ColorReference(selfDependency)>> ELSE <<>>,
     colorAttachmentCount |-> 1,
     pColorAttachments |-> <<ColorReference(selfDependency)>>,
     pResolveAttachments |-> <<>>,
     pDepthStencilAttachment |-> IF hasDepth THEN <<DepthReference>> ELSE <<>>,
     preserveAttachmentCount |-> 0,
     pPreserveAttachments |-> <<>>]

\* deps[] entry written under if (isBackbuffer).
ExternalDependency ==
    [srcSubpass |-> "VK_SUBPASS_EXTERNAL", dstSubpass |-> "0",
     srcStageMask |-> {"VK_PIPELINE_STAGE_COLOR_ATTACHMENT_OUTPUT_BIT"},
     dstStageMask |-> {"VK_PIPELINE_STAGE_COLOR_ATTACHMENT_OUTPUT_BIT"},
     srcAccessMask |-> {},
     dstAccessMask |-> {"VK_ACCESS_COLOR_ATTACHMENT_READ_BIT", "VK_ACCESS_COLOR_ATTACHMENT_WRITE_BIT"},
     dependencyFlags |-> {}]

\* deps[] entry written under if (selfDependency).
SelfDependency ==
    [srcSubpass |-> "0", dstSubpass |-> "0",
     srcStageMask |-> {"VK_PIPELINE_STAGE_COLOR_ATTACHMENT_OUTPUT_BIT"},
     dstStageMask |-> {"VK_PIPELINE_STAGE_FRAGMENT_SHADER_BIT"},
     srcAccessMask |-> {"VK_ACCESS_COLOR_ATTACHMENT_WRITE_BIT"},
     dstAccessMask |-> {"VK_ACCESS_INPUT_ATTACHMENT_READ_BIT"},
     dependencyFlags |-> {"VK_DEPENDENCY_BY_REGION_BIT"}]

\* The deps[] array after both conditional blocks: deps[0 .. numDeps-1].
Dependencies_NoSelf(isBackbuffer, selfDependency) ==
    IF isBackbuffer THEN <<ExternalDependency>> ELSE <<>>

Dependencies_ExternalAlways(isBackbuffer, selfDependency) ==
    <<ExternalDependency>> \o (IF selfDependency THEN <<SelfDependency>> ELSE <<>>)

Dependencies(isBackbuffer, selfDependency) ==
    (IF isBackbuffer THEN <<ExternalDependency>> ELSE <<>>)
    \o (IF selfDependency THEN <<SelfDependency>> ELSE <<>>)

\* VkRenderPassMultiviewCreateInfoKHR mv, chained into rp.pNext when
\* multiview; viewMask = 0x3 serves as view mask and as correlation mask.
MultiviewInfo_OneView(multiview) ==
    IF multiview
    THEN << [subpassCount |-> 1, pViewMasks |-> <<1>>, dependencyCount |-> 0,
             correlationMaskCount |-> 1, pCorrelationMasks |-> <<1>>,
             pViewOffsets |-> <<0>>] >>
    ELSE <<>>

MultiviewInfo(multiview) ==
    IF multiview
    THEN << [subpassCount |-> 1, pViewMasks |-> <<3>>, dependencyCount |-> 0,
             correlationMaskCount |-> 1, pCorrelationMasks |-> <<3>>,
             pViewOffsets |-> <<0>>] >>
    ELSE <<>>

\* CreateRenderPass(vulkan, key, rpType): the VkRenderPassCreateInfo handed
\* to vkCreateRenderPass.
RenderPassCreateInfo(ctx, key, rpType) ==
    LET selfDependency == RenderPassTypeHasInput(rpType)
        isBackbuffer == rpType = BACKBUFFER
        hasDepth == RenderPassTypeHasDepth(rpType)
        multiview == RenderPassTypeHasMultiView(rpType)
        deps == Dependencies(isBackbuffer, selfDependency)
    IN [kind |-> "renderpass", name |-> "",
        rpType |-> rpType,  \* history: the type the pass was created for
        attachmentCount |-> IF hasDepth THEN 2 ELSE 1,
        pAttachments |-> <<ColorAttachment(ctx, key, isBackbuffer)>>
                         \o (IF hasDepth THEN <<DepthAttachment(ctx, key)>> ELSE <<>>),
        subpassCount |-> 1,
        pSubpasses |-> <<Subpass(selfDependency, hasDepth)>>,
        dependencyCount |-> Len(deps),
        pDependencies |-> deps,
        pNext |-> MultiviewInfo(multiview)]

\* VKRRenderPass::Get on pass cache c, with slots `slots` and key `key`: the
\* slot is filled by CreateRenderPass when empty, and returned.
RenderPassGet_NoCache(ctx, objs, c, slots, key, rpType) ==
    LET h == NextHandle(objs, "renderpass", c, rpType)
    IN [objs |-> Created(objs, h, RenderPassCreateInfo(ctx, key, rpType)),
        slots |-> [slots EXCEPT ![rpType] = h],
        value |-> h]

RenderPassGet_AlsoDefault(ctx, objs, c, slots, key, rpType) ==
    IF slots[rpType] = VK_NULL_HANDLE
    THEN LET h == NextHandle(objs, "renderpass", c, rpType)
             d == NextHandle(objs, "renderpass", c, DEFAULT)
             o1 == Created(objs, h, RenderPassCreateInfo(ctx, key, rpType))
         IN IF rpType # DEFAULT /\ slots[DEFAULT] = VK_NULL_HANDLE
            THEN [objs |-> Created(o1, d, RenderPassCreateInfo(ctx, key, DEFAULT)),
                  slots |-> [slots EXCEPT ![rpType] = h, ![DEFAULT] = d],
                  value |-> h]
            ELSE [objs |-> o1, slots |-> [slots EXCEPT ![rpType] = h], value |-> h]
    ELSE [objs |-> objs, slots |-> slots, value |-> slots[rpType]]

RenderPassGet(ctx, objs, c, slots, key, rpType) ==
    IF slots[rpType] = VK_NULL_HANDLE
    THEN LET h == NextHandle(objs, "renderpass", c, rpType)
         IN [objs |-> Created(objs, h, RenderPassCreateInfo(ctx, key, rpType)),
             slots |-> [slots EXCEPT ![rpType] = h],
             value |-> h]
    ELSE [objs |-> objs, slots |-> slots, value |-> slots[rpType]]

\* VKRRenderPass::Get when vkCreateRenderPass may fail: CreateRenderPass
\* asserts the result and the handle before it returns, so a failed call
\* ends the process with the slot still empty.
RenderPassGetNative(ctx, objs, c, slots, key, rpType, nat) ==
    IF slots[rpType] = VK_NULL_HANDLE
    THEN LET m == NativeCreate(objs, NextHandle(objs, "renderpass", c, rpType),
                               RenderPassCreateInfo(ctx, key, rpType), "vkCreateRenderPass", nat)
         IN IF assert_aborts(m.ok) \/ assert_aborts(m.handle # VK_NULL_HANDLE)
            THEN [objs |-> m.objs, slots |-> slots, value |-> VK_NULL_HANDLE,
                  aborted |-> "vkCreateRenderPass", calls |-> {"vkCreateRenderPass"}]
            ELSE [objs |-> m.objs, slots |-> [slots EXCEPT ![rpType] = m.handle],
                  value |-> m.handle, aborted |-> "", calls |-> {"vkCreateRenderPass"}]
    ELSE [objs |-> objs, slots |-> slots, value |-> slots[rpType], aborted |-> "", calls |-> {}]

-----------------------------------------------------------------------------
(* Framebuffer *)

\* The framebuffer-object loop of UpdateTag over the slots `todo`.
RECURSIVE NameFramebuffers(_, _, _, _)
NameFramebuffers(objs, fbs, name, todo) ==
    IF todo = <<>> THEN objs
    ELSE NameFramebuffers(
             IF fbs[Head(todo)] # VK_NULL_HANDLE
             THEN SetDebugName(objs, fbs[Head(todo)], name)
             ELSE objs,
             fbs, name, Tail(todo))

\* for (i = 0; i < TYPE_COUNT; i++)
SlotSeq == [k \in 1 .. TYPE_COUNT |-> k - 1]

\* VKRFramebuffer::UpdateTag(newTag): every label is formatted from the
\* member tag_, and tag_ is not assigned.
UpdateTagNames(objs, col, dep, fbs, tagMember, newTag) ==
    LET o1 == SetDebugName(SetDebugName(objs, col.image, "fb_color_" \o tagMember),
                           col.rtView, "fb_color_" \o tagMember)
        o2 == IF dep.image # VK_NULL_HANDLE
              THEN SetDebugName(SetDebugName(o1, dep.image, "fb_depth_" \o tagMember),
                                dep.rtView, "fb_depth_" \o tagMember)
              ELSE o1
    IN NameFramebuffers(o2, fbs, "fb_" \o tagMember, SlotSeq)

\* What a call reports: its name and arguments, the value it returned, the
\* calls it made on a pass cache, whether it logged a warning, and for the
\* type predicates the three answers.
Result(op, rpType, cache, value, passCalls, warned, preds) ==
    [op |-> op, rpType |-> rpType, cache |-> cache, value |-> value,
     passCalls |-> passCalls, warned |-> warned, preds |-> preds]

\* VkFramebufferCreateInfo fbci of VKRFramebuffer::Get: views[0] is the
\* color primary view, views[1] the depth primary view when hasDepth, and
\* attachmentCount says how many of views[] are bound.
FramebufferCreateInfo_AlwaysDepth(renderPass, col, dep, hasDepth, w, h, rpType) ==
    [kind |-> "framebuffer", name |-> "", rpType |-> rpType, renderPass |-> renderPass,
     attachmentCount |-> 2,
     pAttachments |-> <<col.rtView, dep.rtView>>,
     width |-> w, height |-> h, layers |-> 1]

FramebufferCreateInfo_DepthIfPresent(renderPass, col, dep, hasDepth, w, h, rpType) ==
    [kind |-> "framebuffer", name |-> "", rpType |-> rpType, renderPass |-> renderPass,
     attachmentCount |-> IF hasDepth /\ dep.rtView # VK_NULL_HANDLE THEN 2 ELSE 1,
     pAttachments |-> IF hasDepth /\ dep.rtView # VK_NULL_HANDLE
                      THEN <<col.rtView, dep.rtView>> ELSE <<col.rtView>>,
     width |-> w, height |-> h, layers |-> 1]

FramebufferCreateInfo_LayersOfImage(renderPass, col, dep, hasDepth, w, h, rpType) ==
    [kind |-> "framebuffer", name |-> "", rpType |-> rpType, renderPass |-> renderPass,
     attachmentCount |-> IF hasDepth THEN 2 ELSE 1,
     pAttachments |-> IF hasDepth THEN <<col.rtView, dep.rtView>> ELSE <<col.rtView>>,
     width |-> w, height |-> h, layers |-> col.numLayers]

FramebufferCreateInfo(renderPass, col, dep, hasDepth, w, h, rpType) ==
    [kind |-> "framebuffer", name |-> "",
     rpType |-> rpType,  \* history: the type the object was created for
     renderPass |-> renderPass,
     attachmentCount |-> IF hasDepth THEN 2 ELSE 1,
     pAttachments |-> IF hasDepth THEN <<col.rtView, dep.rtView>> ELSE <<col.rtView>>,
     width |-> w, height |-> h, layers |-> 1]

\* VKRFramebuffer::Get past the cache check: warns when a depth-bearing type
\* meets a framebuffer without depth, asks the pass cache for the pass,
\* creates the framebuffer object, stores it in its slot and labels it.
FramebufferBuild_DefaultPass(ctx, objs, fbs, col, dep, w, h, tagMember, c, slots, key, rpType) ==
    LET hasDepth == RenderPassTypeHasDepth(rpType)
        warned == hasDepth /\ dep.rtView = VK_NULL_HANDLE
        rp == RenderPassGet(ctx, objs, c, slots, key, DEFAULT)
        fb == NextHandle(rp.objs, "framebuffer", 0, rpType)
        made == Created(rp.objs, fb,
                        FramebufferCreateInfo(rp.value, col, dep, hasDepth, w, h, rpType))
        named == IF tagMember # "" /\ ctx.EXT_debug_utils
                 THEN SetDebugName(made, fb, "fb_" \o tagMember)
                 ELSE made
    IN [objs |-> named, fbs |-> [fbs EXCEPT ![rpType] = fb], slots |-> rp.slots,
        value |-> fb, passCalls |-> 1, warned |-> warned]

FramebufferBuild(ctx, objs, fbs, col, dep, w, h, tagMember, c, slots, key, rpType) ==
    LET hasDepth == RenderPassTypeHasDepth(rpType)
        warned == hasDepth /\ dep.rtView = VK_NULL_HANDLE
        rp == RenderPassGet(ctx, objs, c, slots, key, rpType)
        fb == NextHandle(rp.objs, "framebuffer", 0, rpType)
        made == Created(rp.objs, fb,
                        FramebufferCreateInfo(rp.value, col, dep, hasDepth, w, h, rpType))
        named == IF tagMember # "" /\ ctx.EXT_debug_utils
                 THEN SetDebugName(made, fb, "fb_" \o tagMember)
                 ELSE made
    IN [objs |-> named, fbs |-> [fbs EXCEPT ![rpType] = fb], slots |-> rp.slots,
        value |-> fb, passCalls |-> 1, warned |-> warned]

\* VKRFramebuffer::Get past the cache check when the native calls may fail:
\* vkCreateFramebuffer writes into the slot, then the result is asserted.
FramebufferBuildNative(ctx, objs, fbs, col, dep, w, h, tagMember, c, slots, key, rpType, nat) ==
    LET hasDepth == RenderPassTypeHasDepth(rpType)
        warned == hasDepth /\ dep.rtView = VK_NULL_HANDLE
        rp == RenderPassGetNative(ctx, objs, c, slots, key, rpType, nat)
        m == NativeCreate(rp.objs, NextHandle(rp.objs, "framebuffer", 0, rpType),
                          FramebufferCreateInfo(rp.value, col, dep, hasDepth, w, h, rpType),
                          "vkCreateFramebuffer", nat)
        named == IF tagMember # "" /\ ctx.EXT_debug_utils
                 THEN SetDebugName(m.objs, m.handle, "fb_" \o tagMember)
                 ELSE m.objs
    IN IF rp.aborted # ""
       THEN [objs |-> rp.objs, fbs |-> fbs, slots |-> rp.slots, value |-> VK_NULL_HANDLE,
             passCalls |-> 1, warned |-> warned, aborted |-> rp.aborted, calls |-> rp.calls]
       ELSE IF assert_aborts(m.ok)
       THEN [objs |-> m.objs, fbs |-> [fbs EXCEPT ![rpType] = m.handle], slots |-> rp.slots,
             value |-> VK_NULL_HANDLE, passCalls |-> 1, warned |-> warned,
             aborted |-> "vkCreateFramebuffer",
             calls |-> rp.calls \cup {"vkCreateFramebuffer"}]
       ELSE [objs |-> named, fbs |-> [fbs EXCEPT ![rpType] = m.handle], slots |-> rp.slots,
             value |-> m.handle, passCalls |-> 1, warned |-> warned, aborted |-> "",
             calls |-> rp.calls \cup {"vkCreateFramebuffer"}]

\* VKRFramebuffer::Get when the native calls may fail.
FramebufferGetNative(ctx, objs, fbs, col, dep, w, h, tagMember, c, slots, key, rpType, nat) ==
    IF fbs[rpType] # VK_NULL_HANDLE
    THEN [objs |-> objs, fbs |-> fbs, slots |-> slots, value |-> fbs[rpType],
          passCalls |-> 0, warned |-> FALSE, aborted |-> "", calls |-> {}]
    ELSE FramebufferBuildNative(ctx, objs, fbs, col, dep, w, h, tagMember, c, slots, key,
                                rpType, nat)

\* VKRFramebuffer::Get
FramebufferGet_NoCache(ctx, objs, fbs, col, dep, w, h, tagMember, c, slots, key, rpType) ==
    FramebufferBuild(ctx, objs, fbs, col, dep, w, h, tagMember, c, slots, key, rpType)

FramebufferGet(ctx, objs, fbs, col, dep, w, h, tagMember, c, slots, key, rpType) ==
    IF fbs[rpType] # VK_NULL_HANDLE
    THEN [objs |-> objs, fbs |-> fbs, slots |-> slots,
          value |-> fbs[rpType], passCalls |-> 0, warned |-> FALSE]
    ELSE FramebufferBuild(ctx, objs, fbs, col, dep, w, h, tagMember, c, slots, key, rpType)

\* The entries the deferred-deletion facility is handed, one per call.
QueueDeleteImageView(h) == [op |-> "QueueDeleteImageView", handle |-> h, alloc |-> VK_NULL_HANDLE]
QueueDeleteImageAllocation(h, a) == [op |-> "QueueDeleteImageAllocation", handle |-> h, alloc |-> a]
QueueDeleteFramebuffer(h) == [op |-> "QueueDeleteFramebuffer", handle |-> h, alloc |-> VK_NULL_HANDLE]
QueueDeleteRenderPass(h) == [op |-> "QueueDeleteRenderPass", handle |-> h, alloc |-> VK_NULL_HANDLE]

\* if (h) <enqueue entry>
IfHandle(h, entry) == IF h # VK_NULL_HANDLE THEN <<entry>> ELSE <<>>

\* for (auto &fb : framebuf) if (fb) QueueDeleteFramebuffer(fb)
RECURSIVE QueueFramebuffers(_, _)
QueueFramebuffers(fbs, todo) ==
    IF todo = <<>> THEN <<>>
    ELSE IfHandle(fbs[Head(todo)], QueueDeleteFramebuffer(fbs[Head(todo)]))
         \o QueueFramebuffers(fbs, Tail(todo))

\* VKRFramebuffer::~VKRFramebuffer: the calls on the deferred-deletion
\* facility, in order.
DestructorQueue_SkipsDepthSampling(col, dep, fbs) ==
    IfHandle(col.rtView, QueueDeleteImageView(col.rtView))
    \o IfHandle(dep.rtView, QueueDeleteImageView(dep.rtView))
    \o IfHandle(col.texAllLayersView, QueueDeleteImageView(col.texAllLayersView))
    \o IfHandle(col.texLayerViews[1], QueueDeleteImageView(col.texLayerViews[1]))
    \o IfHandle(col.texLayerViews[2], QueueDeleteImageView(col.texLayerViews[2]))
    \o IfHandle(col.image, QueueDeleteImageAllocation(col.image, col.alloc))
    \o IfHandle(dep.image, QueueDeleteImageAllocation(dep.image, dep.alloc))
    \o QueueFramebuffers(fbs, SlotSeq)

DestructorQueue(col, dep, fbs) ==
    IfHandle(col.rtView, QueueDeleteImageView(col.rtView))
    \o IfHandle(dep.rtView, QueueDeleteImageView(dep.rtView))
    \o IfHandle(col.texAllLayersView, QueueDeleteImageView(col.texAllLayersView))
    \o IfHandle(dep.texAllLayersView, QueueDeleteImageView(dep.texAllLayersView))
    \o IfHandle(col.texLayerViews[1], QueueDeleteImageView(col.texLayerViews[1]))
    \o IfHandle(dep.texLayerViews[1], QueueDeleteImageView(dep.texLayerViews[1]))
    \o IfHandle(col.texLayerViews[2], QueueDeleteImageView(col.texLayerViews[2]))
    \o IfHandle(dep.texLayerViews[2], QueueDeleteImageView(dep.texLayerViews[2]))
    \o IfHandle(col.image, QueueDeleteImageAllocation(col.image, col.alloc))
    \o IfHandle(dep.image, QueueDeleteImageAllocation(dep.image, dep.alloc))
    \o QueueFramebuffers(fbs, SlotSeq)

\* for (i = 0; i < TYPE_COUNT; i++) if (pass[i]) QueueDeleteRenderPass(pass[i])
RECURSIVE QueuePasses(_, _)
QueuePasses(slots, todo) ==
    IF todo = <<>> THEN <<>>
    ELSE IfHandle(slots[Head(todo)], QueueDeleteRenderPass(slots[Head(todo)]))
         \o QueuePasses(slots, Tail(todo))

\* VKRRenderPass::Destroy: the calls on the deferred-deletion facility, in
\* order. The slots keep their handles.
DestroyQueue(slots) == QueuePasses(slots, SlotSeq)

\* The deferred-deletion queue after a sequence of enqueue calls.
RECURSIVE Enqueued(_, _)
Enqueued(q, calls) ==
    IF calls = <<>> THEN q
    ELSE Enqueued(q (+) SetToBag({Head(calls)}), Tail(calls))

\* Pass handles enqueued so far, counted with repetition.
QueuedPasses(q) ==
    BagCardinality([e \in {x \in DOMAIN q : x.op = "QueueDeleteRenderPass"} |-> q[e]])

-----------------------------------------------------------------------------
(* The state machine *)

\* The pass caches constructed (VKRRenderPass(key): every slot null), no
\* framebuffer yet, nothing created, recorded or enqueued.
Constructed ==
    /\ pass = [c \in Caches |-> [t \in Slots |-> VK_NULL_HANDLE]]
    /\ objects = <<>>
    /\ cmd = <<>>
    /\ deleteQueue = EmptyBag
    /\ fbState = "none"
    /\ width = 0 /\ height = 0 /\ numLayers = 0
    /\ color = NullImage /\ depth = NullImage
    /\ framebuf = [t \in Slots |-> VK_NULL_HANDLE]
    /\ tag_ = ""
    /\ ret = Result("none", 0, 0, VK_NULL_HANDLE, 0, FALSE, <<>>)

\* The two pass caches hold different keys; the context has debug naming on.
Init ==
    /\ vulkan \in {x \in Contexts : x.EXT_debug_utils}
    /\ key_ = CHOOSE k \in [Caches -> Keys] : k[1] # k[2]
    /\ Constructed

\* Every context, and every way to give the two caches different keys.
InitTypes ==
    /\ vulkan \in Contexts
    /\ key_ \in {k \in [Caches -> Keys] : k[1] # k[2]}
    /\ Constructed

\* VKRFramebuffer::VKRFramebuffer
Construct(size, layers, createDepthStencilBuffer, tag) ==
    /\ fbState = "none"
    /\ LET c == CreateImage(vulkan, objects, cmd, NullImage, size[1], size[2], layers,
                            "VK_FORMAT_R8G8B8A8_UNORM",
                            "VK_IMAGE_LAYOUT_COLOR_ATTACHMENT_OPTIMAL", TRUE, tag)
           d == IF createDepthStencilBuffer
                THEN CreateImage(vulkan, c.objs, c.cmd, NullImage, size[1], size[2], layers,
                                 vulkan.preferredDepthStencilFormat,
                                 "VK_IMAGE_LAYOUT_DEPTH_STENCIL_ATTACHMENT_OPTIMAL", FALSE, tag)
                ELSE [img |-> NullImage, objs |-> c.objs, cmd |-> c.cmd, crashed |-> FALSE]
       IN /\ ~c.crashed /\ ~d.crashed
          /\ color' = c.img
          /\ depth' = d.img
          /\ cmd' = d.cmd
          /\ objects' = UpdateTagNames(d.objs, c.img, d.img, framebuf, tag, tag)
    /\ tag_' = tag
    /\ width' = size[1] /\ height' = size[2] /\ numLayers' = layers
    /\ fbState' = "alive"
    /\ ret' = Result("VKRFramebuffer", 0, 0, VK_NULL_HANDLE, 0, FALSE, <<>>)
    /\ UNCHANGED <<vulkan, deleteQueue, framebuf, pass, key_>>

\* VKRFramebuffer::UpdateTag
UpdateTag(newTag) ==
    /\ fbState = "alive"
    /\ objects' = UpdateTagNames(objects, color, depth, framebuf, tag_, newTag)
    /\ ret' = Result("UpdateTag", 0, 0, VK_NULL_HANDLE, 0, FALSE, <<>>)
              @@ [newTag |-> newTag]  \* the argument of the call
    /\ UNCHANGED <<vulkan, cmd, deleteQueue, fbState, width, height, numLayers,
                   color, depth, framebuf, tag_, pass, key_>>

\* A call of VKRFramebuffer::Get with pass cache c and type rpType.
Get(c, rpType) ==
    /\ fbState = "alive"
    /\ LET r == FramebufferGet(vulkan, objects, framebuf, color, depth, width, height,
                               tag_, c, pass[c], key_[c], rpType)
       IN /\ CountKind(r.objs, "framebuffer") <= MaxFramebufferObjects
          /\ CountKind(r.objs, "renderpass") <= MaxPassObjects
          /\ objects' = r.objs
          /\ framebuf' = r.fbs
          /\ pass' = [pass EXCEPT ![c] = r.slots]
          /\ ret' = Result("Get", rpType, c, r.value, r.passCalls, r.warned, <<>>)
    /\ UNCHANGED <<vulkan, cmd, deleteQueue, fbState, width, height, numLayers,
                   color, depth, tag_, key_>>

\* VKRFramebuffer::~VKRFramebuffer: runs once, on a constructed framebuffer.
Destructor ==
    /\ fbState = "alive"
    /\ deleteQueue' = Enqueued(deleteQueue, DestructorQueue(color, depth, framebuf))
    /\ fbState' = "destroyed"
    /\ ret' = Result("~VKRFramebuffer", 0, 0, VK_NULL_HANDLE, 0, FALSE, <<>>)
    /\ UNCHANGED <<vulkan, objects, cmd, width, height, numLayers,
                   color, depth, framebuf, tag_, pass, key_>>

\* A call of VKRRenderPass::Get on pass cache c.
RenderPassCacheGet(c, rpType) ==
    /\ LET r == RenderPassGet(vulkan, objects, c, pass[c], key_[c], rpType)
       IN /\ CountKind(r.objs, "renderpass") <= MaxPassObjects
          /\ objects' = r.objs
          /\ pass' = [pass EXCEPT ![c] = r.slots]
          /\ ret' = Result("VKRRenderPass::Get", rpType, c, r.value, 0, FALSE, <<>>)
    /\ UNCHANGED <<vulkan, cmd, deleteQueue, fbState, width, height, numLayers,
                   color, depth, framebuf, tag_, key_>>

\* A call of VKRRenderPass::Destroy on pass cache c.
Destroy(c) ==
    /\ deleteQueue' = Enqueued(deleteQueue, DestroyQueue(pass[c]))
    /\ QueuedPasses(deleteQueue') <= MaxQueuedPasses
    /\ ret' = Result("Destroy", 0, c, VK_NULL_HANDLE, 0, FALSE, <<>>)
    /\ UNCHANGED <<vulkan, objects, cmd, fbState, width, height, numLayers,
                   color, depth, framebuf, tag_, pass, key_>>

\* A caller evaluating the three inline predicates on a type value.
TypePredicates(rpType) ==
    /\ ret' = Result("Predicates", rpType, 0, VK_NULL_HANDLE, 0, FALSE,
                     <<RenderPassTypeHasDepth(rpType), RenderPassTypeHasInput(rpType),
                       RenderPassTypeHasMultiView(rpType)>>)
    /\ UNCHANGED <<vulkan, objects, cmd, deleteQueue, fbState, width, height, numLayers,
                   color, depth, framebuf, tag_, pass, key_>>

\* The life of one framebuffer, constructed with tag "a", beside two pass
\* caches.
Next ==
    \/ \E size \in Sizes, layers \in LayerCounts, d \in BOOLEAN :
           Construct(size, layers, d, "a")
    \/ \E newTag \in Tags : UpdateTag(newTag)
    \/ \E c \in Caches, t \in RequestTypes : Get(c, t)
    \/ Destructor
    \/ \E c \in Caches, t \in RequestTypes : RenderPassCacheGet(c, t)
    \/ \E c \in Caches : Destroy(c)

Spec == Init /\ [][Next]_vars

\* The first lazy creation, over every legal type, and the type predicates
\* over every value a RenderPassType can hold.
FirstGet(c, rpType) ==
    /\ CountKind(objects, "framebuffer") = 0
    /\ CountKind(objects, "renderpass") = 0
    /\ Get(c, rpType)

FirstRenderPassCacheGet(c, rpType) ==
    /\ CountKind(objects, "renderpass") = 0
    /\ RenderPassCacheGet(c, rpType)

NextTypes ==
    \/ \E size \in Sizes, layers \in LayerCounts, d \in BOOLEAN, tag \in Tags :
           Construct(size, layers, d, tag)
    \/ \E c \in Caches, t \in Slots : FirstGet(c, t)
    \/ \E c \in Caches, t \in Slots : FirstRenderPassCacheGet(c, t)
    \/ \E t \in TypeValues : TypePredicates(t)

SpecTypes == InitTypes /\ [][NextTypes]_vars

-----------------------------------------------------------------------------
(* The same operations when a native creation call may fail *)

\* The native creation calls CreateImage makes for an image of `layers` layers.
CreateImageCalls(layers) ==
    {"vmaCreateImage", "rtView", "texAllLayersView"}
    \cup {"texLayerViews" \o IntToString(i) : i \in 0 .. layers - 1}

\* The ways the native calls of one operation can turn out: all succeed, or
\* one of `calls` fails, leaving null or an invalid value in its output.
Outcomes(calls, debugBuild) ==
    {NoFailure}
    \cup {[fails |-> {f}, junk |-> j, debugBuild |-> debugBuild] :
             f \in calls, j \in {VK_NULL_HANDLE, InvalidHandle}}

\* What a call that can fail reports: as Result, plus the native calls that
\* failed in it.
ResultNative(op, rpType, cache, value, passCalls, warned, failed) ==
    Result(op, rpType, cache, value, passCalls, warned, <<>>) @@ [failed |-> failed]

\* The process ended inside operation op: no member is observable any more.
Abort(op, failed) ==
    /\ fbState' = "aborted"
    /\ ret' = ResultNative(op, 0, 0, VK_NULL_HANDLE, 0, FALSE, failed)
    /\ UNCHANGED <<vulkan, objects, cmd, deleteQueue, width, height, numLayers,
                   color, depth, framebuf, tag_, pass, key_>>

\* VKRFramebuffer::VKRFramebuffer when the native calls of the color image
\* turn out as natColor and those of the depth image as natDepth.
ConstructNative(size, layers, createDepthStencilBuffer, tag, natColor, natDepth) ==
    /\ fbState = "none"
    /\ \E c \in {CreateImageNative(vulkan, objects, cmd, NullImage, size[1], size[2], layers,
                                    "VK_FORMAT_R8G8B8A8_UNORM",
                                    "VK_IMAGE_LAYOUT_COLOR_ATTACHMENT_OPTIMAL", TRUE, tag, natColor)} :
       \E d \in {IF createDepthStencilBuffer
                 THEN CreateImageNative(vulkan, c.objs, c.cmd, NullImage, size[1], size[2], layers,
                                        vulkan.preferredDepthStencilFormat,
                                        "VK_IMAGE_LAYOUT_DEPTH_STENCIL_ATTACHMENT_OPTIMAL", FALSE,
                                        tag, natDepth)
                 ELSE [img |-> NullImage, objs |-> c.objs, cmd |-> c.cmd,
                       aborted |-> "", crashed |-> FALSE]} :
       LET failed == natColor.fails
                     \cup (IF createDepthStencilBuffer /\ c.aborted = "" THEN natDepth.fails ELSE {})
       IN IF c.aborted # "" \/ c.crashed \/ d.aborted # "" \/ d.crashed
          THEN Abort("VKRFramebuffer", failed)
          ELSE /\ color' = c.img
               /\ depth' = d.img
               /\ cmd' = d.cmd
               /\ objects' = UpdateTagNames(d.objs, c.img, d.img, framebuf, tag, tag)
               /\ tag_' = tag
               /\ width' = size[1] /\ height' = size[2] /\ numLayers' = layers
               /\ fbState' = "alive"
               /\ ret' = ResultNative("VKRFramebuffer", 0, 0, VK_NULL_HANDLE, 0, FALSE, failed)
               /\ UNCHANGED <<vulkan, deleteQueue, framebuf, pass, key_>>

\* The first VKRFramebuffer::Get of a framebuffer, when its native calls
\* turn out as nat.
GetNative(c, rpType, nat) ==
    /\ fbState = "alive"
    /\ CountKind(objects, "framebuffer") = 0
    /\ CountKind(objects, "renderpass") = 0
    /\ framebuf[rpType] = VK_NULL_HANDLE
    /\ \E r \in {FramebufferGetNative(vulkan, objects, framebuf, color, depth, width, height,
                                       tag_, c, pass[c], key_[c], rpType, nat)} :
       LET failed == nat.fails \cap r.calls
       IN IF r.aborted # ""
          THEN Abort("Get", failed)
          ELSE /\ objects' = r.objs
               /\ framebuf' = r.fbs
               /\ pass' = [pass EXCEPT ![c] = r.slots]
               /\ ret' = ResultNative("Get", rpType, c, r.value, r.passCalls, r.warned, failed)
               /\ UNCHANGED <<vulkan, cmd, deleteQueue, fbState, width, height, numLayers,
                              color, depth, tag_, key_>>

\* The first VKRRenderPass::Get on pass cache c, when vkCreateRenderPass
\* turns out as nat.
RenderPassCacheGetNative(c, rpType, nat) ==
    /\ fbState # "aborted"
    /\ CountKind(objects, "renderpass") = 0
    /\ \E r \in {RenderPassGetNative(vulkan, objects, c, pass[c], key_[c], rpType, nat)} :
       LET failed == nat.fails \cap r.calls
       IN IF r.aborted # ""
          THEN Abort("VKRRenderPass::Get", failed)
          ELSE /\ objects' = r.objs
               /\ pass' = [pass EXCEPT ![c] = r.slots]
               /\ ret' = ResultNative("VKRRenderPass::Get", rpType, c, r.value, 0, FALSE, failed)
               /\ UNCHANGED <<vulkan, cmd, deleteQueue, fbState, width, height, numLayers,
                              color, depth, framebuf, tag_, key_>>

\* One framebuffer and two pass caches in a build with or without debug
\* assertions, where at most one native call of each operation fails.
NextNative ==
    \/ \E size \in Sizes, layers \in LayerCounts, d \in BOOLEAN, debugBuild \in BOOLEAN :
          \/ \E nat \in Outcomes(CreateImageCalls(layers), debugBuild) :
                 ConstructNative(size, layers, d, "a", nat, NoFailure)
          \/ \E nat \in Outcomes(CreateImageCalls(layers), debugBuild) :
                 d /\ ConstructNative(size, layers, d, "a", NoFailure, nat)
    \/ \E c \in Caches, t \in RequestTypes :
          \E nat \in Outcomes({"vkCreateRenderPass", "vkCreateFramebuffer"}, FALSE) :
              GetNative(c, t, nat)
    \/ \E c \in Caches, t \in RequestTypes :
          \E nat \in Outcomes({"vkCreateRenderPass"}, FALSE) :
              RenderPassCacheGetNative(c, t, nat)

SpecNative == Init /\ [][NextNative]_vars

-----------------------------------------------------------------------------
(* The image factory on every initial layout *)

\* Initial layouts CreateImage is called with: the three of its switch and
\* one of the others.
InitialLayouts ==
    {"VK_IMAGE_LAYOUT_COLOR_ATTACHMENT_OPTIMAL", "VK_IMAGE_LAYOUT_TRANSFER_DST_OPTIMAL",
     "VK_IMAGE_LAYOUT_DEPTH_STENCIL_ATTACHMENT_OPTIMAL", "VK_IMAGE_LAYOUT_GENERAL"}

\* A call of VKRFramebuffer::CreateImage on the value-initialised member
\* color (isColor) or depth, recording into the command buffer cmd.
CallCreateImage(size, layers, initialLayout, isColor, tag) ==
    /\ fbState = "none"
    /\ (IF isColor THEN color ELSE depth) = NullImage
    /\ LET format == IF isColor THEN "VK_FORMAT_R8G8B8A8_UNORM"
                     ELSE vulkan.preferredDepthStencilFormat
           r == CreateImage(vulkan, objects, cmd, NullImage, size[1], size[2], layers,
                            format, initialLayout, isColor, tag)
       IN IF r.crashed
          THEN /\ fbState' = "aborted"
               /\ UNCHANGED <<objects, cmd, color, depth>>
          ELSE /\ objects' = r.objs
               /\ cmd' = r.cmd
               /\ color' = IF isColor THEN r.img ELSE color
               /\ depth' = IF isColor THEN depth ELSE r.img
               /\ UNCHANGED fbState
    /\ ret' = Result("CreateImage", 0, 0, VK_NULL_HANDLE, 0, FALSE, <<>>)
              @@ [initialLayout |-> initialLayout, isColor |-> isColor]
    /\ UNCHANGED <<vulkan, deleteQueue, width, height, numLayers, framebuf, tag_, pass, key_>>

\* The constructor on a framebuffer whose images were not created yet.
FirstConstruct(size, layers, createDepthStencilBuffer, tag) ==
    /\ CountKind(objects, "image") = 0
    /\ Construct(size, layers, createDepthStencilBuffer, tag)

NextImage ==
    \/ \E size \in Sizes, layers \in LayerCounts, l \in InitialLayouts, isColor \in BOOLEAN :
           CallCreateImage(size, layers, l, isColor, "a")
    \/ \E size \in Sizes, layers \in LayerCounts, d \in BOOLEAN :
           FirstConstruct(size, layers, d, "a")

SpecImage == InitTypes /\ [][NextImage]_vars

-----------------------------------------------------------------------------
(* The two Get operations on every value a RenderPassType can hold *)

\* What an access to framebuf[(int)rpType] or pass[(int)rpType] past the end
\* of the array can do: read a non-null word, which is returned as if it
\* were the cached handle; read a null word, so that the object is created
\* and its handle written past the end of the array; or fault.
OutOfRangeOutcomes == {"garbage", "created", "fault"}

\* VKRFramebuffer::Get with a type value of TYPE_COUNT or more: neither Get
\* nor VKRRenderPass::Get compares rpType with TYPE_COUNT.
GetOutOfRange(c, rpType, outcome) ==
    /\ fbState = "alive"
    /\ rpType \notin Slots
    /\ CountKind(objects, "framebuffer") = 0
    /\ CountKind(objects, "renderpass") = 0
    /\ CASE outcome = "garbage" ->
              /\ ret' = Result("Get", rpType, c, InvalidHandle, 0, FALSE, <<>>)
              /\ UNCHANGED <<objects, fbState>>
         [] outcome = "created" ->
              LET hasDepth == RenderPassTypeHasDepth(rpType)
                  rp == NextHandle(objects, "renderpass", c, rpType)
                  o1 == Created(objects, rp, RenderPassCreateInfo(vulkan, key_[c], rpType))
                  fb == NextHandle(o1, "framebuffer", 0, rpType)
              IN /\ objects' = Created(o1, fb, FramebufferCreateInfo(rp, color, depth, hasDepth,
                                                                     width, height, rpType))
                 /\ ret' = Result("Get", rpType, c, fb, 1,
                                  hasDepth /\ depth.rtView = VK_NULL_HANDLE, <<>>)
                 /\ UNCHANGED fbState
         [] OTHER ->
              /\ fbState' = "aborted"
              /\ ret' = Result("Get", rpType, c, VK_NULL_HANDLE, 0, FALSE, <<>>)
              /\ UNCHANGED objects
    /\ UNCHANGED <<vulkan, cmd, deleteQueue, width, height, numLayers,
                   color, depth, framebuf, tag_, pass, key_>>

\* VKRRenderPass::Get with a type value of TYPE_COUNT or more.
RenderPassCacheGetOutOfRange(c, rpType, outcome) ==
    /\ fbState # "aborted"
    /\ rpType \notin Slots
    /\ CountKind(objects, "renderpass") = 0
    /\ CASE outcome = "garbage" ->
              /\ ret' = Result("VKRRenderPass::Get", rpType, c, InvalidHandle, 0, FALSE, <<>>)
              /\ UNCHANGED <<objects, fbState>>
         [] outcome = "created" ->
              LET rp == NextHandle(objects, "renderpass", c, rpType)
              IN /\ objects' = Created(objects, rp, RenderPassCreateInfo(vulkan, key_[c], rpType))
                 /\ ret' = Result("VKRRenderPass::Get", rpType, c, rp, 0, FALSE, <<>>)
                 /\ UNCHANGED fbState
         [] OTHER ->
              /\ fbState' = "aborted"
              /\ ret' = Result("VKRRenderPass::Get", rpType, c, VK_NULL_HANDLE, 0, FALSE, <<>>)
              /\ UNCHANGED objects
    /\ UNCHANGED <<vulkan, cmd, deleteQueue, width, height, numLayers,
                   color, depth, framebuf, tag_, pass, key_>>

\* The first lazy creation on every value the four flag bits can form: the
\* enum's bit operators let a caller combine BACKBUFFER with a facet.
NextBoundary ==
    \/ \E size \in Sizes, layers \in LayerCounts, d \in BOOLEAN :
           Construct(size, layers, d, "a")
    \/ \E c \in Caches, t \in Slots : FirstGet(c, t)
    \/ \E c \in Caches, t \in Slots : FirstRenderPassCacheGet(c, t)
    \/ \E c \in Caches, t \in TypeValues, o \in OutOfRangeOutcomes : GetOutOfRange(c, t, o)
    \/ \E c \in Caches, t \in TypeValues, o \in OutOfRangeOutcomes :
           RenderPassCacheGetOutOfRange(c, t, o)

SpecBoundary == InitTypes /\ [][NextBoundary]_vars

-----------------------------------------------------------------------------
(* Properties *)

\* Handles of one kind created so far.
Handles(kind) == {h \in DOMAIN objects : h[1] = kind}

\* Framebuffer objects created so far for variant T.
FramebuffersOf(T) == {h \in Handles("framebuffer") : h[3] = T}

\* Pass objects pass cache c created so far for variant T.
PassesOf(c, T) == {h \in Handles("renderpass") : h[2] = c /\ h[3] = T}

\* C1: once the framebuffer holds an object for variant T, a call Get(p, T),
\* with whichever pass cache p, returns that object, creates no native
\* object, makes no call on the pass cache and leaves both caches as they
\* were; no variant ever has two framebuffer objects.
C1_GetReturnsTheCachedFramebuffer ==
    [][ /\ \A T \in Slots : Cardinality(FramebuffersOf(T))' <= 1
        /\ \A T \in Slots :
              (framebuf[T] # VK_NULL_HANDLE /\ ret'.op = "Get" /\ ret'.rpType = T)
              => /\ ret'.value = framebuf[T]
                 /\ objects' = objects
                 /\ ret'.passCalls = 0
                 /\ framebuf' = framebuf /\ pass' = pass ]_vars

\* C1 witness: Get returned the cached object when handed a pass cache other
\* than the one whose pass the object was built against.
C1_Witness ==
    /\ ret.op = "Get" /\ ret.passCalls = 0
    /\ ret.value # VK_NULL_HANDLE /\ ret.value = framebuf[ret.rpType]
    /\ objects[ret.value].renderPass[2] # ret.cache
    /\ key_[objects[ret.value].renderPass[2]] # key_[ret.cache]

\* The entries in the deferred-deletion queue that are not pass entries.
FramebufferEntries == {e \in DOMAIN deleteQueue : e.op # "QueueDeleteRenderPass"}

\* The entry that hands over the created object h: a view, an image with the
\* allocation created with it, or a framebuffer object.
EntryFor(h) ==
    CASE h[1] = "view" -> QueueDeleteImageView(h)
      [] h[1] = "image" ->
            QueueDeleteImageAllocation(
                h, CHOOSE a \in Handles("allocation") : objects[a].image = h)
      [] h[1] = "framebuffer" -> QueueDeleteFramebuffer(h)

\* C2: after the destructor, every view, image (with its allocation) and
\* framebuffer object that was created is in the deferred-deletion queue
\* exactly once, and the queue holds nothing else of these kinds: no null
\* handle, no handle that was never created. Before the destructor none is
\* enqueued.
C2_DestructorEnqueuesEachOwnedHandleOnce ==
    LET owned == Handles("view") \cup Handles("image") \cup Handles("framebuffer")
    IN IF fbState = "destroyed"
       THEN /\ \A h \in owned : CopiesIn(EntryFor(h), deleteQueue) = 1
            /\ FramebufferEntries = {EntryFor(h) : h \in owned}
       ELSE FramebufferEntries = {}

\* C2 witness: a destroyed two-layer framebuffer with depth, on which Get had
\* built two framebuffer objects.
C2_Witness ==
    /\ fbState = "destroyed" /\ numLayers = 2 /\ depth.image # VK_NULL_HANDLE
    /\ Cardinality(Handles("framebuffer")) = 2
    /\ Cardinality(Handles("view")) = 8
    /\ BagCardinality([e \in FramebufferEntries |-> deleteQueue[e]]) = 12

\* C3: a call of VKRRenderPass::Get(T) on a cache whose slot T is empty
\* creates exactly one pass object, with the load and store operations of
\* the cache's key, and returns it; on a cache whose slot T is filled it
\* returns the slot's handle and creates nothing. No cache ever has two pass
\* objects for one variant.
C3_RenderPassGetIsIdempotent ==
    [][ /\ \A c \in Caches, T \in Slots : Cardinality(PassesOf(c, T))' <= 1
        /\ \A c \in Caches, T \in Slots :
              (ret'.op = "VKRRenderPass::Get" /\ ret'.cache = c /\ ret'.rpType = T)
              => IF pass[c][T] # VK_NULL_HANDLE
                 THEN ret'.value = pass[c][T] /\ objects' = objects /\ pass' = pass
                 ELSE /\ ret'.value \notin DOMAIN objects
                      /\ DOMAIN objects' = DOMAIN objects \cup {ret'.value}
                      /\ pass' = [pass EXCEPT ![c][T] = ret'.value]
                      /\ objects'[ret'.value].kind = "renderpass"
                      /\ objects'[ret'.value].pAttachments[1].loadOp
                            = (IF key_[c].colorLoadAction = "KEEP"
                               THEN "VK_ATTACHMENT_LOAD_OP_LOAD"
                               ELSE "VK_ATTACHMENT_LOAD_OP_CLEAR") ]_vars

\* C3 witness: VKRRenderPass::Get returned a pass that a framebuffer object
\* had already been built against.
C3_Witness ==
    /\ ret.op = "VKRRenderPass::Get"
    /\ ret.value = pass[ret.cache][ret.rpType]
    /\ \E fb \in Handles("framebuffer") : objects[fb].renderPass = ret.value

C5_DefaultBindsColorAndDepth ==
    (depth.image # VK_NULL_HANDLE /\ framebuf[DEFAULT] # VK_NULL_HANDLE)
    => LET o == objects[framebuf[DEFAULT]]
       IN /\ o.attachmentCount = 2
          /\ o.pAttachments = <<color.rtView, depth.rtView>>
          /\ o.width = width /\ o.height = height /\ o.layers = 1

\* C5 amended: on a framebuffer with depth, Get(pass, DEFAULT) returns a
\* non-null object that binds 1 attachment, the color primary view, with the
\* framebuffer's width and height and 1 layer; the object built for
\* HAS_DEPTH binds 2, the color and the depth primary view.
C5_DefaultBindsColorOnly ==
    /\ (ret.op = "Get" /\ ret.rpType = DEFAULT)
       => ret.value # VK_NULL_HANDLE /\ ret.value = framebuf[DEFAULT]
    /\ (depth.image # VK_NULL_HANDLE /\ framebuf[DEFAULT] # VK_NULL_HANDLE)
       => LET o == objects[framebuf[DEFAULT]]
          IN /\ o.attachmentCount = 1
             /\ o.pAttachments = <<color.rtView>>
             /\ o.width = width /\ o.height = height /\ o.layers = 1
    /\ (depth.image # VK_NULL_HANDLE /\ framebuf[HAS_DEPTH] # VK_NULL_HANDLE)
       => LET o == objects[framebuf[HAS_DEPTH]]
          IN /\ o.attachmentCount = 2
             /\ o.pAttachments = <<color.rtView, depth.rtView>>
             /\ o.width = width /\ o.height = height /\ o.layers = 1

\* C5 witness: the 1920x1080 one-layer framebuffer with depth, after
\* Get(pass, DEFAULT).
C5_Witness ==
    /\ width = 1920 /\ height = 1080 /\ numLayers = 1
    /\ depth.image # VK_NULL_HANDLE /\ depth.rtView # VK_NULL_HANDLE
    /\ ret.op = "Get" /\ ret.rpType = DEFAULT
    /\ framebuf[DEFAULT] # VK_NULL_HANDLE

\* The depth facet bit of a type value.
DepthBit(t) == t % 2 = 1

\* The COLOR_INPUT bit of a type value.
InputBit(t) == (t \div 2) % 2 = 1

\* The MULTIVIEW bit of a type value.
MultiviewBit(t) == (t \div 4) % 2 = 1

\* C6: on a framebuffer without depth, a Get that builds the object for a
\* type with the depth bit or equal to BACKBUFFER logs the warning and
\* returns a non-null object, stored in the type's slot, that binds 2
\* attachments: the color primary view and a null depth view.
C6_DepthTypeOnDepthlessFramebuffer ==
    (/\ ret.op = "Get" /\ ret.passCalls = 1
     /\ depth.image = VK_NULL_HANDLE
     /\ (DepthBit(ret.rpType) \/ ret.rpType = BACKBUFFER))
    => /\ ret.warned
       /\ ret.value # VK_NULL_HANDLE
       /\ framebuf[ret.rpType] = ret.value
       /\ ret.value \in DOMAIN objects
       /\ objects[ret.value].attachmentCount = 2
       /\ objects[ret.value].pAttachments = <<color.rtView, VK_NULL_HANDLE>>
       /\ color.rtView # VK_NULL_HANDLE

\* C6 witness: Get(pass, HAS_DEPTH) has built on a framebuffer without depth.
C6_Witness ==
    /\ fbState = "alive" /\ depth.image = VK_NULL_HANDLE
    /\ ret.op = "Get" /\ ret.rpType = HAS_DEPTH /\ ret.warned
    /\ framebuf[HAS_DEPTH] # VK_NULL_HANDLE

\* C7: on every value a RenderPassType can hold, hasDepth answers depth bit
\* or BACKBUFFER, hasSelfInput answers the COLOR_INPUT bit and isMultiview
\* the MULTIVIEW bit; on BACKBUFFER the last two answer false.
C7_PredicatesReadTheirBits ==
    ret.op = "Predicates"
    => /\ ret.rpType \in TypeValues
       /\ ret.preds = << DepthBit(ret.rpType) \/ ret.rpType = 8,
                         InputBit(ret.rpType),
                         MultiviewBit(ret.rpType) >>
       /\ ret.rpType = 8 => (~ret.preds[2] /\ ~ret.preds[3])

\* C7 witness: the predicates were asked about BACKBUFFER.
C7_Witness ==
    ret.op = "Predicates" /\ ret.rpType = BACKBUFFER /\ ret.preds = <<TRUE, FALSE, FALSE>>

\* The subpass-0 to subpass-0 dependencies of a pass create-info.
SelfDependencies(o) ==
    {i \in 1 .. Len(o.pDependencies) :
        o.pDependencies[i].srcSubpass = "0" /\ o.pDependencies[i].dstSubpass = "0"}

\* C8: a pass created for a type with the COLOR_INPUT bit has one input
\* attachment reference, attachment 0 in general layout, which is also its
\* color reference, and one self-dependency; every other dependency it has
\* is the external one of the swapchain tag. A pass created for a type
\* without the bit has no input attachment, no self-dependency and its color
\* reference in color-attachment-optimal layout.
C8_SelfInputWiring ==
    \A h \in Handles("renderpass") :
        LET o == objects[h]
            sp == o.pSubpasses[1]
        IN /\ o.subpassCount = 1 /\ Len(o.pSubpasses) = 1
           /\ o.dependencyCount = Len(o.pDependencies)
           /\ sp.colorAttachmentCount = 1 /\ Len(sp.pColorAttachments) = 1
           /\ sp.pColorAttachments[1].attachment = 0
           /\ IF InputBit(h[3])
              THEN /\ sp.inputAttachmentCount = 1
                   /\ sp.pInputAttachments
                        = << [attachment |-> 0, layout |-> "VK_IMAGE_LAYOUT_GENERAL"] >>
                   /\ sp.pColorAttachments[1].layout = "VK_IMAGE_LAYOUT_GENERAL"
                   /\ Cardinality(SelfDependencies(o)) = 1
              ELSE /\ sp.inputAttachmentCount = 0
                   /\ sp.pInputAttachments = <<>>
                   /\ sp.pColorAttachments[1].layout
                        = "VK_IMAGE_LAYOUT_COLOR_ATTACHMENT_OPTIMAL"
                   /\ SelfDependencies(o) = {}
           /\ \A i \in (1 .. Len(o.pDependencies)) \ SelfDependencies(o) :
                 /\ o.pDependencies[i].srcSubpass = "VK_SUBPASS_EXTERNAL"
                 /\ h[3] = BACKBUFFER

\* C8 witness: a pass created for HAS_DEPTH | COLOR_INPUT | MULTIVIEW.
C8_Witness ==
    \E h \in Handles("renderpass") :
        /\ h[3] = 7
        /\ objects[h].pSubpasses[1].inputAttachmentCount = 1
        /\ objects[h].dependencyCount = 1

\* C9: a pass created for a type with the MULTIVIEW bit chains the multiview
\* structure: one subpass, view mask 3, one correlation mask 3, view offset
\* 0. A pass created for a type without the bit chains nothing.
C9_MultiviewExtension ==
    \A h \in Handles("renderpass") :
        IF MultiviewBit(h[3])
        THEN /\ Len(objects[h].pNext) = 1
             /\ objects[h].pNext[1].subpassCount = 1
             /\ objects[h].pNext[1].pViewMasks = <<3>>
             /\ objects[h].pNext[1].correlationMaskCount = 1
             /\ objects[h].pNext[1].pCorrelationMasks = <<3>>
             /\ objects[h].pNext[1].pViewOffsets = <<0>>
        ELSE objects[h].pNext = <<>>

\* C9 witness: a pass created for MULTIVIEW by the second pass cache.
C9_Witness ==
    \E h \in Handles("renderpass") :
        h[3] = MULTIVIEW /\ h[2] = 2 /\ objects[h].pNext # <<>>

\* The views created on image img.
ViewsOn(img) == {v \in Handles("view") : objects[v].image = img}

\* C10 for one image: the per-layer slots up to layers hold distinct 2D
\* views of one layer each, on slices 0 .. layers-1, the other slot is null;
\* the all-layers view is array-typed over all layers; the primary view is
\* 2D iff layers is 1; and these are all the views created on the image.
ImageViewsAsSpecified(img, layers) ==
    /\ img.image # VK_NULL_HANDLE
    /\ \A i \in 1 .. 2 :
          IF i <= layers
          THEN /\ img.texLayerViews[i] # VK_NULL_HANDLE
               /\ objects[img.texLayerViews[i]].viewType = "VK_IMAGE_VIEW_TYPE_2D"
               /\ objects[img.texLayerViews[i]].layerCount = 1
               /\ objects[img.texLayerViews[i]].baseArrayLayer = i - 1
          ELSE img.texLayerViews[i] = VK_NULL_HANDLE
    /\ img.texAllLayersView # VK_NULL_HANDLE
    /\ objects[img.texAllLayersView].viewType = "VK_IMAGE_VIEW_TYPE_2D_ARRAY"
    /\ objects[img.texAllLayersView].layerCount = layers
    /\ img.rtView # VK_NULL_HANDLE
    /\ (objects[img.rtView].viewType = "VK_IMAGE_VIEW_TYPE_2D") <=> (layers = 1)
    /\ objects[img.rtView].viewType
          \in {"VK_IMAGE_VIEW_TYPE_2D", "VK_IMAGE_VIEW_TYPE_2D_ARRAY"}
    /\ ViewsOn(img.image)
          = {img.rtView, img.texAllLayersView} \cup {img.texLayerViews[i] : i \in 1 .. layers}
    /\ Cardinality(ViewsOn(img.image)) = layers + 2

\* C10: once constructed, the color image, and the depth image when there
\* is one, have exactly the views specified for the layer count.
C10_ImageViews ==
    fbState # "none"
    => /\ numLayers \in {1, 2}
       /\ ImageViewsAsSpecified(color, numLayers)
       /\ depth.image # VK_NULL_HANDLE => ImageViewsAsSpecified(depth, numLayers)
       /\ Cardinality(Handles("image")) = IF depth.image # VK_NULL_HANDLE THEN 2 ELSE 1

\* C10 witness: a constructed two-layer framebuffer with depth.
C10_Witness ==
    /\ fbState = "alive" /\ numLayers = 2 /\ depth.image # VK_NULL_HANDLE
    /\ depth.texLayerViews[2] # VK_NULL_HANDLE /\ color.texLayerViews[2] # VK_NULL_HANDLE

\* C11 as claimed: after UpdateTag(newTag) the member tag_ (what Tag()
\* returns) is newTag, and the labels of the color image and primary view,
\* of the depth image and primary view when present, and of every
\* framebuffer object built so far are formatted from newTag.
C11_UpdateTagTakesTheNewTag ==
    ret.op = "UpdateTag"
    => /\ tag_ = ret.newTag
       /\ objects[color.image].name = "fb_color_" \o ret.newTag
       /\ objects[color.rtView].name = "fb_color_" \o ret.newTag
       /\ depth.image # VK_NULL_HANDLE
            => /\ objects[depth.image].name = "fb_depth_" \o ret.newTag
               /\ objects[depth.rtView].name = "fb_depth_" \o ret.newTag
       /\ \A T \in Slots :
             framebuf[T] # VK_NULL_HANDLE
             => objects[framebuf[T]].name = "fb_" \o ret.newTag

\* C12 as claimed: an operation in which a native creation call failed ends
\* the process; it does not return, so no handle it produced is stored.
C12_FailedCreationIsFatal ==
    ("failed" \in DOMAIN ret /\ ret.failed # {}) => fbState = "aborted"

\* C13 as claimed: the type of every Get call that ran, on the framebuffer
\* or on a pass cache, is one of the 9 legal values: below TYPE_COUNT, and
\* never BACKBUFFER combined with a facet bit.
C13_SlotIndexBelowTypeCount ==
    ret.op \in {"Get", "VKRRenderPass::Get"}
    => /\ ret.rpType \in 0 .. 8
       /\ ret.rpType < TYPE_COUNT
       /\ (ret.rpType \div 8) % 2 = 1 => ret.rpType % 8 = 0

\* C14: the framebuffer objects of two different types are different
\* handles, Get returns the handle of the slot of the type it was asked
\* for, and the object in slot T was created against the pass object that
\* a pass cache holds in its own slot T, created for T: one input
\* attachment and the self-dependency exactly when T has the COLOR_INPUT bit.
C14_OneObjectPerTypeOnItsOwnPass ==
    /\ \A T1, T2 \in Slots :
          (T1 # T2 /\ framebuf[T1] # VK_NULL_HANDLE) => framebuf[T1] # framebuf[T2]
    /\ ret.op = "Get" => ret.value = framebuf[ret.rpType]
    /\ \A T \in Slots :
          framebuf[T] # VK_NULL_HANDLE
          => LET rp == objects[framebuf[T]].renderPass
             IN /\ rp \in Handles("renderpass")
                /\ \E c \in Caches : pass[c][T] = rp
                /\ objects[rp].rpType = T
                /\ objects[rp].pSubpasses[1].inputAttachmentCount
                     = IF InputBit(T) THEN 1 ELSE 0
                /\ Cardinality(SelfDependencies(objects[rp])) = IF InputBit(T) THEN 1 ELSE 0

\* C14 witness: the objects for DEFAULT and for COLOR_INPUT both exist, the
\* second returned by the last Get.
C14_Witness ==
    /\ framebuf[DEFAULT] # VK_NULL_HANDLE /\ framebuf[COLOR_INPUT] # VK_NULL_HANDLE
    /\ ret.op = "Get" /\ ret.rpType = COLOR_INPUT /\ ret.value = framebuf[COLOR_INPUT]
    /\ objects[objects[framebuf[COLOR_INPUT]].renderPass].pSubpasses[1].inputAttachmentCount = 1

\* C15: every framebuffer object Get built binds the color primary view
\* alone when its type has neither the depth bit nor is BACKBUFFER, and the
\* color primary view followed by the depth primary view otherwise; its
\* width and height are the framebuffer's, and its layers field is 1.
C15_BuiltObjectShape ==
    \A fb \in Handles("framebuffer") :
        LET o == objects[fb]
            hasDepth == DepthBit(o.rpType) \/ o.rpType = BACKBUFFER
        IN /\ framebuf[o.rpType] = fb
           /\ o.pAttachments = IF hasDepth THEN <<color.rtView, depth.rtView>>
                                            ELSE <<color.rtView>>
           /\ o.attachmentCount = Len(o.pAttachments)
           /\ o.width = width /\ o.height = height
           /\ o.layers = 1

\* C15 witness: a miss for HAS_DEPTH | MULTIVIEW on a two-layer framebuffer
\* with depth.
C15_Witness ==
    /\ numLayers = 2 /\ depth.image # VK_NULL_HANDLE
    /\ ret.op = "Get" /\ ret.rpType = 5 /\ ret.passCalls = 1
    /\ ret.value \in Handles("framebuffer")

\* The slots of pass cache c that hold a pass object.
Populated(c) == {T \in Slots : pass[c][T] # VK_NULL_HANDLE}

ExternalDependencies(o) ==
    {i \in 1 .. Len(o.pDependencies) :
        o.pDependencies[i].srcSubpass = "VK_SUBPASS_EXTERNAL"
        /\ o.pDependencies[i].dstSubpass = "0"}

\* Which of the two dependencies a pass create-info carries.
DependencyOutcome(o) == <<ExternalDependencies(o) # {}, SelfDependencies(o) # {}>>

\* The create-info CreateRenderPass builds for type T in the current context.
PassFor(T) == RenderPassCreateInfo(vulkan, key_[1], T)

\* C17 as claimed: each of the four outcomes (neither, external only, self
\* only, both) is the dependency list of the pass of some legal type.
C17_AllFourOutcomesOccur ==
    \A e \in BOOLEAN, i \in BOOLEAN :
        \E T \in Slots : DependencyOutcome(PassFor(T)) = <<e, i>>

\* C17 amended: a created pass has the external dependency iff its type is
\* BACKBUFFER and the self-dependency iff its type has the COLOR_INPUT bit;
\* it has no other dependency and its count is the number present. Over the
\* legal types neither, external only and self only each occur; both occurs
\* for no value of the type, so the count is at most 1.
C17_DependenciesByTwoExclusiveConditions ==
    /\ \A h \in Handles("renderpass") :
          LET o == objects[h]
          IN /\ DependencyOutcome(o) = <<o.rpType = BACKBUFFER, InputBit(o.rpType)>>
             /\ Cardinality(ExternalDependencies(o)) <= 1
             /\ Cardinality(SelfDependencies(o)) <= 1
             /\ o.dependencyCount
                  = Cardinality(ExternalDependencies(o)) + Cardinality(SelfDependencies(o))
             /\ o.dependencyCount = Len(o.pDependencies)
             /\ o.dependencyCount <= 1
    /\ \A out \in {<<FALSE, FALSE>>, <<TRUE, FALSE>>, <<FALSE, TRUE>>} :
          \E T \in Slots : DependencyOutcome(PassFor(T)) = out
    /\ \A T \in TypeValues : DependencyOutcome(PassFor(T)) # <<TRUE, TRUE>>

\* C17 witness: the pass created for BACKBUFFER, with the external
\* dependency alone.
C17_Witness ==
    \E h \in Handles("renderpass") :
        /\ objects[h].rpType = BACKBUFFER
        /\ objects[h].dependencyCount = 1
        /\ DependencyOutcome(objects[h]) = <<TRUE, FALSE>>

\* The barriers recorded for image.
BarriersOn(image) == {i \in 1 .. Len(cmd) : cmd[i].image = image}

\* C18 for one created image: exactly one barrier was recorded for it, from
\* undefined to the layout stored as its last-known layout, with the
\* destination access and stages of that layout.
OneInitialTransition(img) ==
    /\ Cardinality(BarriersOn(img.image)) = 1
    /\ \A i \in BarriersOn(img.image) :
          /\ cmd[i].oldLayout = "VK_IMAGE_LAYOUT_UNDEFINED"
          /\ cmd[i].newLayout = img.layout
          /\ \/ /\ img.layout = "VK_IMAGE_LAYOUT_COLOR_ATTACHMENT_OPTIMAL"
                /\ cmd[i].dstAccessMask = {"VK_ACCESS_COLOR_ATTACHMENT_WRITE_BIT"}
                /\ cmd[i].dstStage = {"VK_PIPELINE_STAGE_COLOR_ATTACHMENT_OUTPUT_BIT"}
             \/ /\ img.layout = "VK_IMAGE_LAYOUT_TRANSFER_DST_OPTIMAL"
                /\ cmd[i].dstAccessMask = {"VK_ACCESS_TRANSFER_WRITE_BIT"}
                /\ cmd[i].dstStage = {"VK_PIPELINE_STAGE_TRANSFER_BIT"}
             \/ /\ img.layout = "VK_IMAGE_LAYOUT_DEPTH_STENCIL_ATTACHMENT_OPTIMAL"
                /\ cmd[i].dstAccessMask = {"VK_ACCESS_DEPTH_STENCIL_ATTACHMENT_WRITE_BIT"}
                /\ cmd[i].dstStage = {"VK_PIPELINE_STAGE_EARLY_FRAGMENT_TESTS_BIT",
                                      "VK_PIPELINE_STAGE_LATE_FRAGMENT_TESTS_BIT"}

\* The images that exist among the two members.
ImagesPresent == {img \in {color, depth} : img.image # VK_NULL_HANDLE}

\* C18: each created image has its one initial transition in the command
\* buffer, which holds nothing else; a CreateImage call returned iff its
\* initial layout is one of the three, stored then as the image's layout,
\* and otherwise ended the process leaving the command buffer as it was;
\* a constructed framebuffer has recorded the color transition to
\* color-attachment-optimal first and, iff it has depth, the depth
\* transition to depth-stencil-attachment-optimal second.
C18_OneInitialTransitionPerImage ==
    /\ \A img \in ImagesPresent : OneInitialTransition(img)
    /\ Len(cmd) = Cardinality(ImagesPresent)
    /\ ret.op = "CreateImage"
         => LET known == ret.initialLayout \in
                            {"VK_IMAGE_LAYOUT_COLOR_ATTACHMENT_OPTIMAL",
                             "VK_IMAGE_LAYOUT_TRANSFER_DST_OPTIMAL",
                             "VK_IMAGE_LAYOUT_DEPTH_STENCIL_ATTACHMENT_OPTIMAL"}
                img == IF ret.isColor THEN color ELSE depth
            IN /\ (fbState = "aborted") <=> ~known
               /\ known => (img.image # VK_NULL_HANDLE /\ img.layout = ret.initialLayout)
               /\ ~known => img = NullImage
    /\ fbState = "alive"
         => /\ Len(cmd) = IF depth.image # VK_NULL_HANDLE THEN 2 ELSE 1
            /\ cmd[1].image = color.image
            /\ cmd[1].newLayout = "VK_IMAGE_LAYOUT_COLOR_ATTACHMENT_OPTIMAL"
            /\ depth.image # VK_NULL_HANDLE
                 => /\ cmd[2].image = depth.image
                    /\ cmd[2].newLayout = "VK_IMAGE_LAYOUT_DEPTH_STENCIL_ATTACHMENT_OPTIMAL"

\* C18 witness: a depth image created in transfer-destination layout after
\* a color image, both transitions in the command buffer.
C18_Witness ==
    /\ ret.op = "CreateImage" /\ ~ret.isColor
    /\ depth.layout = "VK_IMAGE_LAYOUT_TRANSFER_DST_OPTIMAL"
    /\ color.image # VK_NULL_HANDLE /\ Len(cmd) = 2
    /\ cmd[2].dstAccessMask = {"VK_ACCESS_TRANSFER_WRITE_BIT"}

C20_BuiltObjectMatchesItsPass ==
    \A fb \in Handles("framebuffer") :
        LET o == objects[fb]
            rp == objects[o.renderPass]
        IN /\ o.attachmentCount = rp.attachmentCount
           /\ o.attachmentCount = IF DepthBit(o.rpType) \/ o.rpType = BACKBUFFER THEN 2 ELSE 1
           /\ \A i \in 1 .. o.attachmentCount :
                 o.pAttachments[i] # VK_NULL_HANDLE
                 => /\ objects[o.pAttachments[i]].format = rp.pAttachments[i].format
                    /\ objects[objects[o.pAttachments[i]].image].format
                         = rp.pAttachments[i].format

\* The positions, counted from i, of the set bits of mask.
RECURSIVE SetBits(_, _)
SetBits(mask, i) ==
    IF mask = 0 THEN {}
    ELSE (IF mask % 2 = 1 THEN {i} ELSE {}) \cup SetBits(mask \div 2, i + 1)

\* The views a view mask selects.
ViewsOfMask(mask) == SetBits(mask, 0)

\* C21 as claimed: every framebuffer object built on a pass that chains the
\* multiview structure belongs to a framebuffer of exactly 2 layers, and
\* every view its view mask selects is an array layer of each primary view
\* the object binds.
C21_MultiviewOnlyOnTwoLayers ==
    \A fb \in Handles("framebuffer") :
        LET o == objects[fb]
            rp == objects[o.renderPass]
        IN rp.pNext # <<>>
           => /\ numLayers = 2
              /\ \A i \in 1 .. o.attachmentCount :
                    o.pAttachments[i] # VK_NULL_HANDLE
                    => \A v \in ViewsOfMask(rp.pNext[1].pViewMasks[1]) :
                           v < objects[o.pAttachments[i]].layerCount

====
